---- MODULE Spec2Model ----
(***************************************************************************)
(* River-raid style terminal game (src/main.rs): the World, the physics    *)
(* step, and main's game loop (poll / read / drain / match, physics, draw, *)
(* closing message).                                                       *)
(*                                                                         *)
(* Rows and columns are u16 in the source.  Every value the model reaches  *)
(* stays far below 65535, so additions never wrap; a subtraction that      *)
(* would go below zero is modelled as the panic it is (debug build:        *)
(* "attempt to subtract with overflow"; release build: the wrapped lower   *)
(* bound makes gen_range's range empty, which panics as well).             *)
(*                                                                         *)
(* Vec indices are 0-based in the source and 1-based here: row i of the    *)
(* source is map[i + 1].                                                    *)
(***************************************************************************)
EXTENDS Integers, Sequences, FiniteSets, TLC

VARIABLES
    maxc,             \* World.maxc: terminal width
    maxl,             \* World.maxl: terminal height
    player_location,  \* World.player_location: [l, c]
    status,           \* World.status
    map,              \* World.map: sequence of <<left, right>>
    next_left,        \* World.next_left  (scroll target of row 0's left wall)
    next_right,       \* World.next_right (scroll target of row 0's right wall)
    enemy,            \* World.enemy: sequence of [l, c]
    bullet,           \* World.bullet: sequence of [l, c, energy]
    queue,            \* key events buffered by the terminal, oldest first
    pc                \* position of main: poll, physics, draw, closing, done, panic

world == <<maxc, maxl, player_location, status, map, next_left, next_right, enemy, bullet>>
vars == <<maxc, maxl, player_location, status, map, next_left, next_right, enemy, bullet, queue, pc>>

(***************************************************************************)
(* Bound of the model (not a program constant).                            *)
(***************************************************************************)
\* Largest number of key events buffered between two polls.
MaxQueue == 2

(***************************************************************************)
(* Geometry primitives.                                                    *)
(***************************************************************************)
Location_new(l, c) == [l |-> l, c |-> c]

\* Location::hit: component-wise equality.
hit(self, x) == self.c = x.c /\ self.l = x.l

\* u16::saturating_sub
saturating_sub(a, b) == IF a >= b THEN a - b ELSE 0

\* u16::abs_diff
abs_diff(a, b) == IF a >= b THEN a - b ELSE b - a

\* Vec::remove(i), i 0-based.
remove(s, i) == SubSeq(s, 1, i) \o SubSeq(s, i + 2, Len(s))

\* Bullet::new: at the player's position, energy maxl / 2.
Bullet_new(pl, ml) == [l |-> pl.l, c |-> pl.c, energy |-> ml \div 2]

(***************************************************************************)
(* World::new and the terminal sizes the model starts from.                *)
(***************************************************************************)
World_map(mc, ml) == [i \in 1..ml |-> <<mc \div 2 - 5, mc \div 2 + 5>>]

World_player(mc, ml) == Location_new(ml - 1, mc \div 2)

World_next_left(mc) == mc \div 2 - 7

World_next_right(mc) == mc \div 2 + 7

\* The state after `World::new(maxc, maxl)` in main, for a terminal of size d = <<maxc, maxl>>.
World_new(d) ==
    /\ maxc = d[1]
    /\ maxl = d[2]
    /\ player_location = World_player(d[1], d[2])
    /\ map = World_map(d[1], d[2])
    /\ status = "Alive"
    /\ next_left = World_next_left(d[1])
    /\ next_right = World_next_right(d[1])
    /\ enemy = <<>>
    /\ bullet = <<>>

\* The world is untouched from construction.
IsFresh ==
    /\ player_location = World_player(maxc, maxl)
    /\ map = World_map(maxc, maxl)
    /\ status = "Alive"
    /\ next_left = World_next_left(maxc)
    /\ next_right = World_next_right(maxc)
    /\ enemy = <<>>
    /\ bullet = <<>>

(***************************************************************************)
(* main: key events and the match on the key read.                         *)
(* An event is [kind, code]; kind "Press" / "Release" for Event::Key,      *)
(* "Resize" for any event that is not a key event.                         *)
(***************************************************************************)
Press(code) == [kind |-> "Press", code |-> code]

\* The event main acts on: `let key = read()` is the first buffered event;
\* the `while poll(0) { let _ = read(); }` loop then discards all the others.
read(q) == Head(q)

\* Only a pressed key reaches the inner match.
actionable(ev) == ev.kind = "Press"

\* Mutant of move: the upper clamps compare with max instead of max - 1.
move_off_by_one(code, pl, mc, ml) ==
    IF code \in {"w", "Up"} THEN
        (IF pl.l > 1 THEN [pl EXCEPT !.l = @ - 1] ELSE pl)
    ELSE IF code \in {"s", "Down"} THEN
        (IF pl.l < ml THEN [pl EXCEPT !.l = @ + 1] ELSE pl)
    ELSE IF code \in {"d", "Right"} THEN
        (IF pl.c < mc THEN [pl EXCEPT !.c = @ + 1] ELSE pl)
    ELSE IF code \in {"a", "Left"} THEN
        (IF pl.c > 1 THEN [pl EXCEPT !.c = @ - 1] ELSE pl)
    ELSE pl

\* The movement arms of the match.
move(code, pl, mc, ml) ==
    IF code \in {"w", "Up"} THEN
        (IF pl.l > 1 THEN [pl EXCEPT !.l = @ - 1] ELSE pl)
    ELSE IF code \in {"s", "Down"} THEN
        (IF pl.l < ml - 1 THEN [pl EXCEPT !.l = @ + 1] ELSE pl)
    ELSE IF code \in {"d", "Right"} THEN
        (IF pl.c < mc - 1 THEN [pl EXCEPT !.c = @ + 1] ELSE pl)
    ELSE IF code \in {"a", "Left"} THEN
        (IF pl.c > 1 THEN [pl EXCEPT !.c = @ - 1] ELSE pl)
    ELSE pl

\* Mutant of fire: push without looking at the bullet list.
fire_always(bs, pl, ml) == Append(bs, Bullet_new(pl, ml))

\* KeyCode::Char(' '): push a bullet only when none is in flight.
fire(bs, pl, ml) == IF Len(bs) = 0 THEN Append(bs, Bullet_new(pl, ml)) ELSE bs

\* Player position after the match on event ev.
key_player(ev, pl, mc, ml) == IF actionable(ev) THEN move(ev.code, pl, mc, ml) ELSE pl

\* Bullet list after the match on event ev.
key_bullet(ev, bs, pl, ml) ==
    IF actionable(ev) /\ ev.code = "space" THEN fire(bs, pl, ml) ELSE bs

\* KeyCode::Char('q') => break
key_quits(ev) == actionable(ev) /\ ev.code = "q"

(***************************************************************************)
(* physics, step by step.                                                  *)
(***************************************************************************)
\* Mutant of hits_wall: strict comparisons (a player on the wall column survives).
hits_wall_strict(pl, m) == pl.c < m[pl.l + 1][1] \/ pl.c > m[pl.l + 1][2]

\* Mutant of hits_wall: the two wall columns swapped.
hits_wall_swapped(pl, m) == pl.c <= m[pl.l + 1][2] \/ pl.c >= m[pl.l + 1][1]

\* "check if player has hit the ground": the player's row indexes the map.
hits_wall(pl, m) == pl.c <= m[pl.l + 1][1] \/ pl.c >= m[pl.l + 1][2]

\* Mutant of bullet_hits: the second cell is one row below the enemy, not above.
bullet_hits_below(b, e) ==
    \/ hit(b, e)
    \/ hit(b, Location_new(e.l + 1, e.c))

\* The forgiving hit box: the enemy's cell or the cell one row above it.
bullet_hits(b, e) ==
    \/ hit(b, e)
    \/ hit(b, Location_new(saturating_sub(e.l, 1), e.c))

\* Mutant of scan_bullets: the hits are found but the removal is lost.
scan_bullets_keep(es, i, bs, j) == [ok |-> TRUE, enemy |-> es]

\* `for bullet in &world.bullet` for enemy index i (0-based), from bullet j on:
\* each hit removes world.enemy[i]; ok is FALSE when enemy[i] is out of bounds.
RECURSIVE scan_bullets(_, _, _, _)
scan_bullets(es, i, bs, j) ==
    IF j > Len(bs) THEN [ok |-> TRUE, enemy |-> es]
    ELSE IF i >= Len(es) THEN [ok |-> FALSE, enemy |-> es]
    ELSE IF bullet_hits(bs[j], es[i + 1]) THEN scan_bullets(remove(es, i), i, bs, j + 1)
    ELSE scan_bullets(es, i, bs, j + 1)

\* `for i in (0..world.enemy.len()).rev()`: player-enemy and bullet-enemy resolution.
RECURSIVE scan_enemies(_, _, _, _, _)
scan_enemies(es, i, st, pl, bs) ==
    IF i < 0 THEN [ok |-> TRUE, enemy |-> es, status |-> st]
    ELSE LET st1 == IF es[i + 1].c = pl.c /\ es[i + 1].l = pl.l THEN "Dead" ELSE st
             r == scan_bullets(es, i, bs, 1)
         IN  IF r.ok THEN scan_enemies(r.enemy, i - 1, st1, pl, bs)
             ELSE [ok |-> FALSE, enemy |-> r.enemy, status |-> st1]

\* Mutant of scroll: the rows are copied from the first to the last, so every
\* row ends up with the values of row 0.
scroll_forward(m) == [l \in 1..Len(m) |-> m[1]]

\* "move map downward": row l takes row l - 1, from the last row to row 1.
scroll(m) == [l \in 1..Len(m) |-> IF l = 1 THEN m[1] ELSE m[l - 1]]

\* Mutant of drift: snap to the target.
drift_snap(cur, target) == target

\* One wall of row 0 moves one unit toward its target (match on cmp).
drift(cur, target) ==
    IF target > cur THEN cur + 1
    ELSE IF target < cur THEN cur - 1
    ELSE cur

\* Mutant of retargets: the roll alone decides.
retargets_anytime(target, cur, roll) == roll >= 7

\* A retarget is attempted only when the target equals row 0's value; the
\* roll gen_range(0..10) is drawn only then.
retargets(target, cur, roll) == target = cur /\ roll >= 7

\* gen_range(target - 5..target + 5) panics when target - 5 underflows.
retarget_panics(target) == target < 5

\* The width floor on the targets.
floor_right(nl, nr) == IF abs_diff(nr, nl) < 3 THEN nr + 3 ELSE nr

\* "move and spawn enemies", the move: `for i in (0..len).rev()`.
RECURSIVE move_enemies(_, _, _)
move_enemies(es, i, ml) ==
    IF i < 0 THEN es
    ELSE IF es[i + 1].l < ml
         THEN move_enemies([es EXCEPT ![i + 1].l = @ + 1], i - 1, ml)
         ELSE move_enemies(remove(es, i), i - 1, ml)

\* gen_range(map[0].0..map[1].1) panics on a one-row map and on an empty range.
spawn_panics(m) == Len(m) < 2 \/ m[1][1] >= m[2][2]

\* Mutant of move_bullets: a projectile climbs one row per tick, not two.
RECURSIVE move_bullets_one_row(_, _)
move_bullets_one_row(bs, i) ==
    IF i < 0 THEN bs
    ELSE IF bs[i + 1].energy = 0 \/ bs[i + 1].l < 3
         THEN move_bullets_one_row(remove(bs, i), i - 1)
         ELSE LET l1 == bs[i + 1].l - 1
                  e1 == bs[i + 1].energy - 1
              IN  move_bullets_one_row([bs EXCEPT ![i + 1] =
                                   [l |-> l1, c |-> @.c, energy |-> IF l1 < 2 THEN 0 ELSE e1]],
                               i - 1)

\* "move bullets and remove once collided or out of screen".
RECURSIVE move_bullets(_, _)
move_bullets(bs, i) ==
    IF i < 0 THEN bs
    ELSE IF bs[i + 1].energy = 0 \/ bs[i + 1].l < 3
         THEN move_bullets(remove(bs, i), i - 1)
         ELSE LET l1 == bs[i + 1].l - 2
                  e1 == bs[i + 1].energy - 1
              IN  move_bullets([bs EXCEPT ![i + 1] =
                                   [l |-> l1, c |-> @.c, energy |-> IF l1 < 2 THEN 0 ELSE e1]],
                               i - 1)

\* rng.gen_range(lo..hi): a value of lo..hi-1, here one at an offset k \in
\* Picks from the low end of the range (an empty range has no value; the
\* callers panic before drawing from one).
gen_range(lo, hi, Picks) == {v \in lo..(hi - 1) : v - lo \in Picks}

\* physics(&mut world).  RollsL and RollsR are the values offered for the
\* retarget rolls gen_range(0..10) of the left and of the right target, PicksL
\* and PicksR the offsets offered for the new target within its range,
\* SpawnRolls and SpawnPicks the values and offsets offered for the spawn roll
\* and the spawn column.  A roll the code does not draw (the `&&`
\* short-circuits) has no effect on the result.  The steps run in the order
\* of the source, and a step that panics leaves the world as the steps
\* before it made it.
physics(RollsL, PicksL, RollsR, PicksR, SpawnRolls, SpawnPicks) ==
    /\ pc = "physics"
    /\ UNCHANGED <<maxc, maxl, player_location, queue>>
    /\ LET st0 == IF hits_wall(player_location, map) THEN "Dead" ELSE status
           sc == scan_enemies(enemy, Len(enemy) - 1, st0, player_location, bullet)
           m1 == scroll(map)
           left1 == drift(m1[1][1], next_left)
           right1 == drift(m1[1][2], next_right)
           m2 == [m1 EXCEPT ![1] = <<left1, right1>>]
       IN
       /\ status' = sc.status
       /\ \E rl \in RollsL :
          \E rr \in RollsR :
          \E rs \in SpawnRolls :
            LET goL == retargets(next_left, left1, rl)
                goR == retargets(next_right, right1, rr)
                goS == rs >= 9
            IN
            IF ~sc.ok
            THEN \* world.enemy[i] out of bounds in the collision loop
                 /\ pc' = "panic"
                 /\ enemy' = sc.enemy
                 /\ UNCHANGED <<map, next_left, next_right, bullet>>
            ELSE IF goL /\ retarget_panics(next_left)
            THEN \* the left target's range: the map is scrolled and drifted
                 /\ pc' = "panic"
                 /\ enemy' = sc.enemy
                 /\ map' = m2
                 /\ UNCHANGED <<next_left, next_right, bullet>>
            ELSE
              \E nl \in IF goL THEN gen_range(next_left - 5, next_left + 5, PicksL)
                               ELSE {next_left} :
                IF goR /\ retarget_panics(next_right)
                THEN \* the right target's range: the left target is already set
                     /\ pc' = "panic"
                     /\ enemy' = sc.enemy
                     /\ map' = m2
                     /\ next_left' = nl
                     /\ UNCHANGED <<next_right, bullet>>
                ELSE
                  \E nr \in IF goR THEN gen_range(next_right - 5, next_right + 5, PicksR)
                                   ELSE {next_right} :
                    LET es1 == move_enemies(sc.enemy, Len(sc.enemy) - 1, maxl) IN
                    /\ map' = m2
                    /\ next_left' = nl
                    /\ next_right' = floor_right(nl, nr)
                    /\ IF goS /\ spawn_panics(m2)
                       THEN \* the spawn column's range: the enemies have moved
                            /\ pc' = "panic"
                            /\ enemy' = es1
                            /\ UNCHANGED bullet
                       ELSE
                         \E nc \in IF goS THEN gen_range(m2[1][1], m2[2][2], SpawnPicks)
                                          ELSE {0} :
                           LET es2 == IF goS THEN Append(es1, Location_new(0, nc)) ELSE es1 IN
                           /\ enemy' = es2
                           /\ bullet' = move_bullets(bullet, Len(bullet) - 1)
                           /\ pc' = "draw"

\* draw(&sc, &world): reads the world only.  `world.maxc - world.map[l].1`
\* underflows when a right wall lies beyond the terminal width: a panic in a
\* debug build, a wrapped repeat count in a release build.  Then the frame
\* sleep, and back to the loop condition.
draw_overflows == \E l \in 1..Len(map) : map[l][2] > maxc

draw ==
    /\ pc = "draw"
    /\ \E out \in IF draw_overflows THEN {"poll", "panic"} ELSE {"poll"} : pc' = out
    /\ UNCHANGED <<world, queue>>

\* The terminal buffers one more key event (at most cap between two polls).
\* Events typed during physics, draw or the sleep are seen by the next poll
\* in the same order, so arrivals are placed just before the poll.
key_event(Events, cap) ==
    /\ pc = "poll"
    /\ status = "Alive"
    /\ Len(queue) < cap
    /\ \E ev \in Events : queue' = Append(queue, ev)
    /\ UNCHANGED <<world, pc>>

\* One pass of the loop body up to the call of physics: poll(10ms); when an
\* event is ready, read it, drain the rest, and match on the event read.
main_input ==
    /\ pc = "poll"
    /\ status = "Alive"
    /\ IF queue = <<>>
       THEN /\ pc' = "physics"
            /\ UNCHANGED <<world, queue>>
       ELSE LET key == read(queue) IN
            /\ queue' = <<>>
            /\ pc' = IF key_quits(key) THEN "closing" ELSE "physics"
            /\ player_location' = key_player(key, player_location, maxc, maxl)
            /\ bullet' = key_bullet(key, bullet, player_location, maxl)
            /\ UNCHANGED <<maxc, maxl, status, map, next_left, next_right, enemy>>

\* `while world.status == PlayerStatus::Alive` fails: leave the loop.
main_exit ==
    /\ pc = "poll"
    /\ status # "Alive"
    /\ pc' = "closing"
    /\ UNCHANGED <<world, queue>>

\* After the loop: clear, print "Good game! Thanks.", sleep, restore the terminal.
main_closing ==
    /\ pc = "closing"
    /\ pc' = "done"
    /\ UNCHANGED <<world, queue>>

(***************************************************************************)
(* Specifications.  The code is one program; the specifications differ in  *)
(* the terminal size and in the part of the environment (keys typed,       *)
(* random draws offered) they explore.                                     *)
(***************************************************************************)
\* A key with no arm in the match (`_ => {}`).
IdleEvents == {Press("x")}

\* The retarget roll gen_range(0..10) on both sides of its threshold 7, below
\* it, and at it; the spawn roll below and on both sides of its threshold 9.
AllRolls == {6, 7}
NoRolls == {6}
AlwaysRolls == {7}
NoSpawnRolls == {8}
SpawnRolls == {8, 9}

\* Offsets within a range: all ten of a retarget range, the lower six (the new
\* target is not above the old one), the lowest, and the two highest.
AllPicks == 0..9
DownPicks == 0..5
LowPicks == {0}
HighPicks == {8, 9}
AllColumns == 0..64

\* The tunnel: a 24 x 2 terminal, the player idle, every retarget draw of the
\* left target and the draws of the right target that do not raise it, no
\* spawn.  The play ends when a wall reaches the player's column 12.
InitTunnel == World_new(<<24, 2>>) /\ queue = <<>> /\ pc = "poll"

NextTunnel ==
    \/ key_event(IdleEvents, 1)
    \/ main_input
    \/ physics(AllRolls, AllPicks, AllRolls, DownPicks, NoSpawnRolls, AllColumns)
    \/ draw
    \/ main_exit
    \/ main_closing

SpecTunnel == InitTunnel /\ [][NextTunnel]_vars

\* Every key the match names, and one it does not.
Codes == {"q", "w", "s", "a", "d", "Up", "Down", "Left", "Right", "space", "x"}
PressEvents == {Press(c) : c \in Codes}

\* Pressed keys, a released key and an event that is not a key event.
AllEvents == PressEvents \cup {[kind |-> "Release", code |-> "a"], [kind |-> "Resize", code |-> ""]}

\* The terminals of the player's specification: one row, and two heights of
\* the narrowest terminal World::new accepts.
PlaySizes == {<<14, 1>>, <<14, 4>>, <<14, 7>>}

\* The player: 14 columns, every key, one per tick, both retarget rolls, the
\* right target redrawn to the lowest value of its range (the left target is
\* 0 and its redraw aborts), no spawn.
InitPlay == (\E size \in PlaySizes : World_new(size)) /\ queue = <<>> /\ pc = "poll"

NextPlay ==
    \/ key_event(PressEvents, 1)
    \/ main_input
    \/ physics(AllRolls, AllPicks, AllRolls, LowPicks, NoSpawnRolls, AllColumns)
    \/ draw
    \/ main_exit
    \/ main_closing

SpecPlay == InitPlay /\ [][NextPlay]_vars

\* The keys of the fresh world's specification: one step left or up, or no move.
StepEvents == {Press("a"), Press("w"), Press("x")}

\* The fresh world: a 40 x 20 terminal, the player idle or stepping left or up,
\* every retarget taken and redrawn to the lowest value of its range, both
\* spawn rolls, the spawn on the lowest column of its range.  The left target
\* goes 13, 8, 3 and its next redraw, in tick 12, aborts.
InitEnemy == World_new(<<40, 20>>) /\ queue = <<>> /\ pc = "poll"

NextEnemy ==
    \/ key_event(StepEvents, 1)
    \/ main_input
    \/ physics(AlwaysRolls, LowPicks, AlwaysRolls, LowPicks, SpawnRolls, LowPicks)
    \/ draw
    \/ main_exit
    \/ main_closing

SpecEnemy == InitEnemy /\ [][NextEnemy]_vars

\* The input buffer: a 14 x 3 terminal, up to MaxQueue events of every kind
\* between two polls, no retarget, no spawn.  In this world the player cannot
\* die (the walls settle at columns 0 and 14, out of the player's reach, and
\* there is no enemy), so main_exit is never enabled and is left out.
InitInput == World_new(<<14, 3>>) /\ queue = <<>> /\ pc = "poll"

NextInput ==
    \/ key_event(AllEvents, MaxQueue)
    \/ main_input
    \/ physics(NoRolls, AllPicks, NoRolls, AllPicks, NoSpawnRolls, AllColumns)
    \/ draw
    \/ main_closing

SpecInput == InitInput /\ [][NextInput]_vars

\* The keys that fire and that change the player's row, and one with no arm.
ShootEvents == {Press("space"), Press("w"), Press("s"), Press("x")}

\* The spawn columns of the shooting specification: 6 and 7 above the lowest
\* of the range, which is 1 in the first tick and 0 from the second on (the
\* player's column is 7).
ShootPicks == {6, 7}

\* The terminals of the shooting specification: six rows, and one row (where
\* the spawn draw aborts on the missing row 1).
ShootSizes == {<<14, 6>>, <<14, 1>>}

\* Shooting: 14 columns, the player firing and moving along its column, no
\* retarget, both spawn rolls in every tick.
InitShoot == (\E size \in ShootSizes : World_new(size)) /\ queue = <<>> /\ pc = "poll"

NextShoot ==
    \/ key_event(ShootEvents, 1)
    \/ main_input
    \/ physics(NoRolls, AllPicks, NoRolls, AllPicks, SpawnRolls, ShootPicks)
    \/ draw
    \/ main_exit
    \/ main_closing

SpecShoot == InitShoot /\ [][NextShoot]_vars

\* The keys of the chase: one step right, or no move.
RightEvents == {Press("d"), Press("x")}

\* The chase: a 24 x 2 terminal, the player idle or stepping right, every
\* retarget taken and redrawn to one of the two highest values of its range,
\* no spawn.  The left wall climbs until it reaches the player.
InitChase == World_new(<<24, 2>>) /\ queue = <<>> /\ pc = "poll"

NextChase ==
    \/ key_event(RightEvents, 1)
    \/ main_input
    \/ physics(AlwaysRolls, HighPicks, AlwaysRolls, HighPicks, NoSpawnRolls, AllColumns)
    \/ draw
    \/ main_exit
    \/ main_closing

SpecChase == InitChase /\ [][NextChase]_vars

(***************************************************************************)
(* Claims.                                                                 *)
(***************************************************************************)
\* A physics tick that ran to its end.
Ticked == pc = "physics" /\ pc' = "draw"

\* C1 (as claimed): every row of the tunnel map has left < right and
\* right - left >= 3, in every reachable state.
C1_WidthFloor ==
    \A i \in 1..Len(map) : map[i][1] < map[i][2] /\ map[i][2] - map[i][1] >= 3

\* C2 (as claimed): no physics tick aborts (no unsigned subtraction below
\* zero, no draw from an empty range, no index out of bounds).
C2_NoPhysicsAbort == [][pc = "physics" => pc' # "panic"]_vars

\* C8: in every physics tick each wall of row 0 moves by at most 1, never
\* away from its target, and stays put when it already equals its target.
C8_SmoothDrift ==
    [][Ticked =>
        /\ abs_diff(map'[1][1], map[1][1]) <= 1
        /\ abs_diff(map'[1][1], next_left) <= abs_diff(map[1][1], next_left)
        /\ (map[1][1] = next_left => map'[1][1] = next_left)
        /\ abs_diff(map'[1][2], map[1][2]) <= 1
        /\ abs_diff(map'[1][2], next_right) <= abs_diff(map[1][2], next_right)
        /\ (map[1][2] = next_right => map'[1][2] = next_right)]_vars

\* C8 witness: a tick has just moved row 0's left wall (row 1 holds the old
\* row 0) while its right wall, already at its target, stayed.
C8_Witness ==
    /\ pc = "draw"
    /\ map[1][1] # map[2][1]
    /\ map[1][2] = map[2][2]
    /\ map[1][2] = next_right

\* C9 (as claimed): in a physics tick a target changes only if row 0's value
\* equals the old target at that moment, every write included.
C9_Original ==
    [][Ticked =>
        /\ (next_left' # next_left => map'[1][1] = next_left)
        /\ (next_right' # next_right => map'[1][2] = next_right)]_vars

\* C9 (amended): targetLeft changes only when row 0's left equals the old
\* targetLeft; targetRight changes while row 0's right differs from the old
\* targetRight only through the width-floor adjustment, which adds exactly 3
\* when the targets are closer than 3.
C9_RetargetAtTarget ==
    [][Ticked =>
        /\ (next_left' # next_left => map'[1][1] = next_left)
        /\ (next_right' # next_right /\ map'[1][2] # next_right =>
               /\ next_right' = next_right + 3
               /\ abs_diff(next_right, next_left') < 3)]_vars

\* C9 witness: row 0's left wall did not move in the tick just run (it was at
\* its target) and the target now differs: the tick retargeted it.
C9_Witness ==
    /\ pc = "draw"
    /\ map[1][1] = map[2][1]
    /\ next_left # map[1][1]

\* The step of main_input: the loop body ran up to the call of physics (or broke out).
InputStep == pc = "poll" /\ status = "Alive" /\ pc' \in {"physics", "closing"}

\* C3: the projectile list never holds more than one projectile, and a fire
\* intent applied while a projectile exists leaves the list unchanged.
C3_OneBullet ==
    [][/\ Len(bullet) <= 1
       /\ Len(bullet') <= 1
       /\ (InputStep /\ queue # <<>> /\ queue[1] = Press("space") /\ Len(bullet) >= 1
              => bullet' = bullet)]_vars

\* C3 witness: the fire key is about to be applied while a projectile that
\* has already moved (it is above the row it could have been fired from) exists.
C3_Witness ==
    /\ pc = "poll"
    /\ status = "Alive"
    /\ Len(bullet) = 1
    /\ bullet[1].l < 3
    /\ queue = <<Press("space")>>

\* The cell a movement key asks for, before any clamping.
Asked(code, pl) ==
    IF code \in {"w", "Up"} THEN [pl EXCEPT !.l = @ - 1]
    ELSE IF code \in {"s", "Down"} THEN [pl EXCEPT !.l = @ + 1]
    ELSE IF code \in {"d", "Right"} THEN [pl EXCEPT !.c = @ + 1]
    ELSE IF code \in {"a", "Left"} THEN [pl EXCEPT !.c = @ - 1]
    ELSE pl

InBounds(pl) == 1 <= pl.l /\ pl.l <= maxl - 1 /\ 1 <= pl.c /\ pl.c <= maxc - 1

\* C4 (as claimed): the player stays within 1..maxRow-1 x 1..maxCol-1 in every
\* state, and a move intent goes to the cell asked for when it is in that
\* range and leaves the position unchanged otherwise.
C4_Original ==
    [][/\ InBounds(player_location)
       /\ InBounds(player_location')
       /\ (InputStep /\ queue # <<>> /\ queue[1].kind = "Press" =>
              player_location' =
                  IF InBounds(Asked(queue[1].code, player_location))
                  THEN Asked(queue[1].code, player_location)
                  ELSE player_location)]_vars

\* C4 (amended): on a terminal of two rows or more the player stays within
\* 1..maxRow-1 x 1..maxCol-1 in every state, and a move intent goes to the
\* cell asked for when it is in that range and leaves the position unchanged
\* otherwise; on a terminal of one row the player is on row 0 in every state,
\* with its column within 1..maxCol-1.
C4_PlayerBounds ==
    [][/\ maxl >= 2 =>
            /\ InBounds(player_location)
            /\ InBounds(player_location')
            /\ (InputStep /\ queue # <<>> /\ queue[1].kind = "Press" =>
                   player_location' =
                       IF InBounds(Asked(queue[1].code, player_location))
                       THEN Asked(queue[1].code, player_location)
                       ELSE player_location)
       /\ maxl = 1 =>
            /\ player_location.l = 0 /\ player_location'.l = 0
            /\ 1 <= player_location.c /\ player_location.c <= maxc - 1
            /\ 1 <= player_location'.c /\ player_location'.c <= maxc - 1]_vars

\* C4 witness: the player is on the last allowed column and on the first
\* allowed row, and a key asking to go further right is about to be applied.
C4_Witness ==
    /\ pc = "poll"
    /\ status = "Alive"
    /\ player_location = Location_new(1, maxc - 1)
    /\ queue = <<Press("d")>>

\* C5: a physics tick that starts with the player's column <= the left wall
\* or >= the right wall of the player's row ends with status Dead.
C5_WallKills ==
    [][Ticked /\ (\/ player_location.c <= map[player_location.l + 1][1]
                  \/ player_location.c >= map[player_location.l + 1][2])
          => status' = "Dead"]_vars

\* C5 witness: the tick just run found the player on the left wall column of
\* its row (that row is now one row further down) and the player is dead.
C5_Witness ==
    /\ pc = "draw"
    /\ status = "Dead"
    /\ player_location.l + 2 <= Len(map)
    /\ player_location.c = map[player_location.l + 2][1]

\* C6: no physics tick changes the player position; and the first tick of a
\* fresh 40 x 20 world, with no input, ends with status Alive.
C6_NoInputTick ==
    [][pc = "physics" =>
          /\ player_location' = player_location
          /\ (IsFresh /\ maxc = 40 /\ maxl = 20 => pc' = "draw" /\ status' = "Alive")]_vars

\* C6 witness: the fresh 40 x 20 world after exactly one tick (row 0 has
\* drifted once, row 1 holds the initial row) in which the spawn roll added
\* an enemy, player in place and alive.
C6_Witness ==
    /\ pc = "draw"
    /\ maxc = 40 /\ maxl = 20
    /\ map[1] = <<14, 26>>
    /\ map[2] = <<15, 25>>
    /\ Len(enemy) = 1
    /\ player_location = Location_new(19, 20)
    /\ status = "Alive"

\* C7 (as claimed): an enemy is removed in the tick in which its row reaches
\* maxRow, so that, an enemy's row being the number of ticks since it was at
\* row 0, no enemy of the list is ever at row maxRow.
C7_Original == \A i \in 1..Len(enemy) : enemy[i].l < maxl

\* The match on event ev is what the pass of the loop did to the world.
Applied(ev) ==
    /\ player_location' = key_player(ev, player_location, maxc, maxl)
    /\ bullet' = key_bullet(ev, bullet, player_location, maxl)
    /\ (pc' = "closing") = key_quits(ev)
    /\ UNCHANGED <<maxc, maxl, status, map, next_left, next_right, enemy>>

\* C10 (as claimed): with several events buffered, all are consumed and the
\* intent applied is the one of the most recently queued event.
C10_Original ==
    [][InputStep /\ Len(queue) >= 2 => queue' = <<>> /\ Applied(queue[Len(queue)])]_vars

(***************************************************************************)
(* Claims on projectiles and enemies.                                      *)
(***************************************************************************)
\* The hit box in the words of the specification: the projectile is in the
\* enemy's column, at the enemy's row or one row above it (not above row 0).
InHitBox(b, e) == b.c = e.c /\ (b.l = e.l \/ (e.l > 0 /\ b.l = e.l - 1))

\* Enemy i (1-based) is in the hit box of some projectile.
IsHit(i) == \E j \in 1..Len(bullet) : InHitBox(bullet[j], enemy[i])

\* No two listed enemies share a row, so its row tells an enemy from the
\* others: all advance one row per tick and a new one starts at row 0.
RowsDistinct == \A i, k \in 1..Len(enemy) : i # k => enemy[i].l # enemy[k].l

\* C11: an enemy hit by a projectile in a tick is absent from the enemy list
\* that the tick's frame is drawn from (no enemy is on the row it would have
\* advanced to), and it cannot come back: rows are distinct, only physics
\* changes the list, and a tick only advances, removes and adds at row 0.
C11_HitEnemyGone ==
    [][/\ RowsDistinct
       /\ Ticked =>
            /\ \A i \in 1..Len(enemy) :
                   IsHit(i) => \A k \in 1..Len(enemy') : enemy'[k].l # enemy[i].l + 1
            /\ \A k \in 1..Len(enemy') :
                   \/ enemy'[k].l = 0
                   \/ \E i \in 1..Len(enemy) :
                          ~IsHit(i) /\ enemy'[k] = [enemy[i] EXCEPT !.l = @ + 1]
       /\ pc # "physics" => enemy' = enemy]_vars

\* C11 witness: a tick is about to resolve a projectile in an enemy's hit box.
C11_Witness == pc = "physics" /\ \E i \in 1..Len(enemy) : IsHit(i)

\* Enemy i (1-based) of the list before a tick is listed after it, one row down.
Survives(i) == \E k \in 1..Len(enemy') : enemy'[k] = [enemy[i] EXCEPT !.l = @ + 1]

\* The enemies the movement step keeps (row below maxl) if collision kept them.
Movable == {i \in 1..Len(enemy) : enemy[i].l < maxl}

\* C16: in a tick, an enemy is removed by the collision step if and only if a
\* projectile is at its cell or at the cell one row above it: every enemy in a
\* hit box is gone, every other enemy that the movement step keeps is still
\* listed, and the list holds nothing else but the enemy spawned at row 0.
C16_HitBoxExact ==
    [][Ticked =>
         /\ \A i \in Movable : Survives(i) <=> ~IsHit(i)
         /\ Cardinality({k \in 1..Len(enemy') : enemy'[k].l >= 1})
              = Cardinality({i \in Movable : ~IsHit(i)})]_vars

\* C16 witness: a tick is about to resolve a projectile one row above an
\* enemy while another enemy, later in the list, is in no hit box.
C16_Witness ==
    /\ pc = "physics"
    /\ \E i, k \in 1..Len(enemy), j \in 1..Len(bullet) :
           /\ bullet[j].c = enemy[i].c /\ bullet[j].l = enemy[i].l - 1
           /\ i < k /\ ~IsHit(k)

\* C20: a projectile below an enemy in the enemy's column is never, after a
\* tick, above that enemy while the enemy is still listed.
C20_NoPassThrough ==
    [][Ticked =>
         \A i \in 1..Len(enemy), j \in 1..Len(bullet) :
             (bullet[j].c = enemy[i].c /\ bullet[j].l > enemy[i].l) =>
                 ~ \E k \in 1..Len(enemy'), m \in 1..Len(bullet') :
                       /\ enemy'[k] = [enemy[i] EXCEPT !.l = @ + 1]
                       /\ bullet'[m].c = enemy'[k].c
                       /\ bullet'[m].l < enemy'[k].l]_vars

\* The number of ticks after which a list of projectiles is empty.
RECURSIVE Life(_)
Life(bs) == IF bs = <<>> THEN 0 ELSE 1 + Life(move_bullets(bs, Len(bs) - 1))

\* A fire intent that takes effect.
Fired == InputStep /\ Len(bullet) = 0 /\ Len(bullet') = 1

\* A projectile that a tick moves rather than removes.
Flies(b) == b.l >= 3 /\ b.energy > 0

\* C18 as stated: a flying projectile loses exactly 1 energy in every tick.
C18_Original ==
    [][Ticked =>
         \A j \in 1..Len(bullet) :
             Flies(bullet[j]) =>
                 /\ Len(bullet') = Len(bullet)
                 /\ bullet'[j].energy = bullet[j].energy - 1]_vars

\* C18: a projectile is fired at the player's position with energy maxl / 2;
\* a tick moves a flying projectile (row >= 3, energy > 0) exactly 2 rows up
\* in its column and takes 1 energy from it, or all of its energy when its
\* new row is below 2, and removes any other projectile; a projectile's row
\* is never below 1 on a terminal of two rows or more (on one row it is fired
\* at row 0) and every projectile is gone within maxl / 2 + 1 ticks.
C18_BulletLifetime ==
    [][/\ \A j \in 1..Len(bullet) : bullet[j].l >= (IF maxl >= 2 THEN 1 ELSE 0)
       /\ Life(bullet) <= maxl \div 2 + 1
       /\ Fired => bullet' = <<[l |-> player_location.l, c |-> player_location.c,
                                energy |-> maxl \div 2]>>
       /\ Ticked =>
            /\ Len(bullet') = Cardinality({j \in 1..Len(bullet) : Flies(bullet[j])})
            /\ \A j \in 1..Len(bullet) :
                   Flies(bullet[j]) =>
                       bullet'[j] = [l |-> bullet[j].l - 2, c |-> bullet[j].c,
                                     energy |-> IF bullet[j].l - 2 < 2 THEN 0
                                                ELSE bullet[j].energy - 1]]_vars

\* C18 witness: a tick is about to move a projectile from row 3 to row 1,
\* where it loses more than 1 energy.
C18_Witness ==
    /\ pc = "physics"
    /\ \E j \in 1..Len(bullet) : bullet[j].l = 3 /\ bullet[j].energy > 1

(***************************************************************************)
(* Claims on the status and on leaving the loop.                           *)
(***************************************************************************)
\* C12 (as claimed): the status is always Alive or Dead; it changes only from
\* Alive to Dead, and only inside physics; the tick that sets Dead runs to
\* its end, its frame is drawn, and the loop is then left; once the status
\* is Dead no step changes the world (no input is applied) and physics is
\* neither running nor started again.
C12_StatusMachine ==
    [][/\ status \in {"Alive", "Dead"}
       /\ status' \in {"Alive", "Dead"}
       /\ status' # status =>
              (status = "Alive" /\ status' = "Dead" /\ pc = "physics" /\ pc' = "draw")
       /\ status = "Dead" =>
              /\ world' = world
              /\ pc # "physics" /\ pc' # "physics"
              /\ (pc = "draw" => pc' = "poll")
              /\ (pc = "poll" => pc' = "closing")]_vars

\* The intent applied by this pass of the loop is quit.
QuitApplied == InputStep /\ queue # <<>> /\ queue[1] = Press("q")

\* C13: when the intent applied is quit, the loop is left at once for the
\* closing message, with the world as it was and the status Alive; after the
\* loop is left there is no physics tick and no frame, only the closing
\* message and then the end; a player who died leaves the loop for the
\* closing message too (the program does not end without it), and the end is
\* reached from the closing message only.
C13_QuitEndsSession ==
    [][/\ QuitApplied => (pc' = "closing" /\ status' = "Alive" /\ world' = world)
       /\ (pc = "poll" /\ status = "Dead") => pc' = "closing"
       /\ status' = "Dead" => pc' # "panic"
       /\ pc = "closing" => (pc' = "done" /\ world' = world)
       /\ pc' = "done" => pc = "closing"
       /\ pc # "done"]_vars

(***************************************************************************)
(* Claims on the tunnel and on spawning.                                   *)
(***************************************************************************)
\* C14: the scroll targets are at least 3 apart, in their order, in every
\* state (they start 14 apart and only a physics tick changes them).
C14_TargetFloor == next_right - next_left >= 3

\* C19: every tunnel row has 0 <= left and right <= maxc, in every state.
C19_WallsOnScreen == \A l \in 1..Len(map) : 0 <= map[l][1] /\ map[l][2] <= maxc

\* C15 (as claimed): an enemy spawned by a tick is strictly between the left
\* wall of row 0 and the right wall of row 1 (values after the scroll).
C15_Original ==
    [][Ticked =>
         \A k \in 1..Len(enemy') :
             enemy'[k].l = 0 => (map'[1][1] < enemy'[k].c /\ enemy'[k].c < map'[2][2])]_vars

\* C17: a tick leaves the map with maxl rows, and every row but row 0 holds
\* the pair that the row above it held before the tick.
C17_PureShift ==
    [][Ticked =>
         /\ Len(map') = maxl
         /\ \A l \in 2..Len(map') : map'[l] = map[l - 1]]_vars

\* C17 witness: a frame whose rows differ from each other, after a tick that
\* shifted unequal rows (the last two rows differ).
C17_Witness ==
    /\ pc = "draw"
    /\ Len(map) >= 2
    /\ map[Len(map)] # map[Len(map) - 1]
    /\ map[1] # map[2]

====
